---- MODULE Spec2Model ----
(***************************************************************************)
(* Model of openaiexpress/run.py: the batch planner (make_batches), the    *)
(* two entry points (fast_chat_completion, fast_chat_completion_worker)    *)
(* and the worker pool (distribute_batches, worker_process,                *)
(* process_batch).                                                         *)
(*                                                                         *)
(* A message is the record [kind, pos, tokens]: pos is its index in the    *)
(* caller's list (the identity of the Python object), tokens is what       *)
(* count_tokens returns for it.  None and the responses of the remote      *)
(* endpoint are records of the same shape so that they can be compared.    *)
(***************************************************************************)
EXTENDS Integers, Sequences, FiniteSets, TLC

VARIABLES
    messages,      \* the caller's list of messages
    model,         \* the model name the entry point is called with
    tier,          \* the tier the entry point is called with
    entry,         \* which function the caller calls
    num_cpus,      \* os.cpu_count()
    rpm_limit,     \* argument of make_batches
    tpm_limit,     \* argument of make_batches
    context_len,   \* argument of make_batches
    planned,       \* TRUE once make_batches has been called
    batches,       \* the plan returned by make_batches
    pc,            \* position of the caller / supervisor
    i,             \* loop index of the supervisor's current for loop
    batch_queue,   \* multiprocessing.Queue of work items
    result_queue,  \* multiprocessing.Queue of response lists
    processes,     \* the worker processes
    results,       \* the lists the supervisor has read from result_queue
    output,        \* the list returned to the caller
    exception,     \* the exception raised to the caller
    invoked,       \* positions of the messages passed to client.chat.completions.create
    now,           \* the time, time.time()
    enqueued,      \* the times at which the batches were put on batch_queue
    started        \* the times at which process_batch was called, in call order

vars == <<messages, model, tier, entry, num_cpus, rpm_limit, tpm_limit,
          context_len, planned, batches, pc, i, batch_queue, result_queue,
          processes, results, output, exception, invoked, now, enqueued, started>>

callVars == <<messages, model, tier, entry, num_cpus>>
clockVars == <<now, enqueued, started>>
poolVars == <<i, batch_queue, result_queue, processes, results, invoked, clockVars>>

----------------------------------------------------------------------------
(* Bounds of the model *)

MaxLen == 3        \* longest message list given to an entry point
MaxCpus == 2       \* largest os.cpu_count()
SmallTokens == 5   \* token count of a short message
LargeTokens == 5000 \* token count of a long message
MaxPlanLen == 4    \* longest message list given to make_batches directly
MaxPlanTokens == 3 \* largest token count / token limit given to make_batches directly
MaxPlanRpm == 2    \* largest rpm_limit given to make_batches directly
PipeCapacity == 6  \* what the pipe of result_queue holds, in units of item_size
TickLen == 31      \* the step of the clock
MaxTime == 186     \* the time after which the clock stops for requests in flight

\* the seconds of time.sleep, line 163
SLEEP == 62

----------------------------------------------------------------------------
(* Values *)

None == [kind |-> "None", pos |-> 0, tokens |-> 0]
Pending == [kind |-> "pending", pos |-> 0, tokens |-> 0]
Message(p, t) == [kind |-> "message", pos |-> p, tokens |-> t]

\* all sequences over S of length 0..n
SeqsUpTo(S, n) == UNION {[1..k -> S] : k \in 0..n}

\* the message lists whose k-th message has position k
MessageLists(Tokens, n) ==
    {[k \in DOMAIN ts |-> Message(k, ts[k])] : ts \in SeqsUpTo(Tokens, n)}

RECURSIVE chain(_)
\* itertools.chain.from_iterable
chain(lists) ==
    IF lists = <<>> THEN <<>> ELSE Head(lists) \o chain(Tail(lists))

RECURSIVE SumTokens(_)
SumTokens(batch) ==
    IF batch = <<>> THEN 0 ELSE Head(batch).tokens + SumTokens(Tail(batch))

\* the entries of a batch that are messages, not None
Requests(batch) == SelectSeq(batch, LAMBDA e : e # None)

----------------------------------------------------------------------------
(* count_tokens and make_batches *)

\* the tokenizer is an external collaborator: a message carries its count
count_tokens(message) == message.tokens

\* line 73 with >= replaced by >
needs_new_batch_off_by_one(current_batch, current_tokens, prompt_tokens, rpm, tpm) ==
    Len(current_batch) > rpm \/ current_tokens + prompt_tokens > tpm

\* line 73 without the comparison with tpm_limit
needs_new_batch_rpm_only(current_batch, current_tokens, prompt_tokens, rpm, tpm) ==
    Len(current_batch) >= rpm

\* the condition of line 73
needs_new_batch(current_batch, current_tokens, prompt_tokens, rpm, tpm) ==
    Len(current_batch) >= rpm \/ current_tokens + prompt_tokens > tpm

\* one iteration of the for loop, lines 66-79; st is the record of the
\* locals batches, current_batch, current_tokens.  The branch of line 68
\* appends None and falls through to line 73.
make_batches_iteration(st, message, rpm, tpm, ctx) ==
    LET prompt_tokens == count_tokens(message)
        current_batch == IF prompt_tokens > ctx
                         THEN Append(st.current_batch, None)
                         ELSE st.current_batch
    IN  IF needs_new_batch(current_batch, st.current_tokens, prompt_tokens, rpm, tpm)
        THEN [batches |-> Append(st.batches, current_batch),
              current_batch |-> <<message>>,
              current_tokens |-> prompt_tokens]
        ELSE [batches |-> st.batches,
              current_batch |-> Append(current_batch, message),
              current_tokens |-> st.current_tokens + prompt_tokens]

RECURSIVE make_batches_loop(_, _, _, _, _)
\* the for loop of line 66 over the remaining messages
make_batches_loop(st, msgs, rpm, tpm, ctx) ==
    IF msgs = <<>> THEN st
    ELSE make_batches_loop(make_batches_iteration(st, Head(msgs), rpm, tpm, ctx),
                           Tail(msgs), rpm, tpm, ctx)

\* lines 80-83 without the test of line 80
make_batches_return_always_append(st) == Append(st.batches, st.current_batch)

\* lines 80-83 without the append of line 81
make_batches_return_without_last(st) == st.batches

\* lines 80-83
make_batches_return(st) ==
    IF st.current_batch # <<>>
    THEN Append(st.batches, st.current_batch)
    ELSE st.batches

make_batches(msgs, rpm, tpm, ctx) ==
    make_batches_return(
        make_batches_loop([batches |-> <<>>, current_batch |-> <<>>, current_tokens |-> 0],
                          msgs, rpm, tpm, ctx))

----------------------------------------------------------------------------
(* SpecPlan: make_batches applied to bounded inputs *)

PlanTokens == 1..MaxPlanTokens
PlanLimits == -1..MaxPlanTokens

NoPool ==
    /\ i = 0
    /\ batch_queue = <<>>
    /\ result_queue = <<>>
    /\ processes = <<>>
    /\ results = <<>>
    /\ invoked = {}
    /\ now = 0
    /\ enqueued = <<>>
    /\ started = <<>>

InitPlan ==
    /\ messages \in MessageLists(PlanTokens, MaxPlanLen)
    /\ rpm_limit \in -1..MaxPlanRpm
    /\ tpm_limit \in PlanLimits
    /\ context_len \in PlanTokens
    /\ model = "gpt-4"
    /\ tier = "free"
    /\ entry = "make_batches"
    /\ num_cpus = 1
    /\ planned = FALSE
    /\ batches = <<>>
    /\ pc = "call"
    /\ output = <<>>
    /\ exception = "none"
    /\ NoPool

\* a direct call of make_batches, lines 61-83
CallMakeBatches ==
    /\ entry = "make_batches"
    /\ pc = "call"
    /\ batches' = make_batches(messages, rpm_limit, tpm_limit, context_len)
    /\ planned' = TRUE
    /\ pc' = "returned"
    /\ UNCHANGED <<callVars, rpm_limit, tpm_limit, context_len, poolVars, output, exception>>

NextPlan == CallMakeBatches

SpecPlan == InitPlan /\ [][NextPlan]_vars

----------------------------------------------------------------------------
(* The limit table, fastopenai/constant_limits.py *)

RateLimit(rpm, rpd, tpm) == [rpm |-> rpm, rpd |-> rpd, tpm |-> tpm]

gpt_3_5_limits == <<
    RateLimit(3, 200, 40000),
    RateLimit(3500, 10000, 60000),
    RateLimit(3500, 0, 80000),
    RateLimit(3500, 0, 160000),
    RateLimit(10000, 0, 1000000),
    RateLimit(10000, 0, 2000000) >>

gpt_4_limits == <<
    RateLimit(-1, -1, -1),
    RateLimit(500, 10000, 10000),
    RateLimit(5000, 0, 40000),
    RateLimit(5000, 0, 80000),
    RateLimit(10000, 0, 300000),
    RateLimit(10000, 0, 300000) >>

gpt_4_turbo_limits == <<
    RateLimit(-1, -1, -1),
    RateLimit(500, 0, 300000),
    RateLimit(5000, 0, 450000),
    RateLimit(5000, 0, 600000),
    RateLimit(10000, 0, 800000),
    RateLimit(10000, 0, 1500000) >>

\* ModelLimit.from_rate_limits is defined in fastopenai/schema/rate.py, which
\* is not among the sources: one attribute per usage tier, lowest tier
\* first, and the context length of the model family (the published
\* lengths; the properties below depend only on which messages exceed it).
from_rate_limits(model_name, rate_limits) ==
    [model_name |-> model_name,
     free |-> rate_limits[1],
     tier_1 |-> rate_limits[2],
     tier_2 |-> rate_limits[3],
     tier_3 |-> rate_limits[4],
     tier_4 |-> rate_limits[5],
     tier_5 |-> rate_limits[6],
     context_len |-> IF model_name \in {"gpt-4", "gpt-4-0613"} THEN 8192
                     ELSE IF model_name \in {"gpt-3.5-turbo-16k", "gpt-3.5-turbo-16k-0125"}
                     THEN 16385
                     ELSE IF rate_limits = gpt_4_turbo_limits THEN 128000
                     ELSE 4096]

MODEL_LIMITS == <<
    from_rate_limits("gpt-3.5-turbo", gpt_3_5_limits),
    from_rate_limits("gpt-3.5-turbo-0125", gpt_3_5_limits),
    from_rate_limits("gpt-3.5-turbo-0301", gpt_3_5_limits),
    from_rate_limits("gpt-3.5-turbo-0613", gpt_3_5_limits),
    from_rate_limits("gpt-3.5-turbo-1106", gpt_3_5_limits),
    from_rate_limits("gpt-3.5-turbo-16k", gpt_3_5_limits),
    from_rate_limits("gpt-3.5-turbo-16k-0125", gpt_3_5_limits),
    from_rate_limits("gpt-4", gpt_4_limits),
    from_rate_limits("gpt-4-0613", gpt_4_limits),
    from_rate_limits("gpt-4-turbo-preview", gpt_4_turbo_limits),
    from_rate_limits("gpt-4-0125-preview", gpt_4_turbo_limits),
    from_rate_limits("gpt-4-1106-preview", gpt_4_turbo_limits) >>

\* the filter of lines 185 and 197
find_model_limits(name) == SelectSeq(MODEL_LIMITS, LAMBDA x : x.model_name = name)

\* lines 186 and 198 with <= replaced by <
model_not_found_strict(model_limits) == Len(model_limits) < 0

\* the test of lines 186 and 198
model_not_found(model_limits) == Len(model_limits) <= 0

----------------------------------------------------------------------------
(* process_batch and the remote endpoint *)

\* the generation options the caller passes on; none is named result_queue
kwargs == {}

\* the parameters of process_batch without a default, line 87
process_batch_parameters == {"messages", "model", "result_queue"}

\* whether a call of process_batch with these arguments binds every
\* parameter; if not, Python raises TypeError at the call
process_batch_binds(arguments) == process_batch_parameters \subseteq arguments

\* what client.chat.completions.create returns for a message
create(message) == [kind |-> "response", pos |-> message.pos, tokens |-> 0]

\* send_request before the await of line 93: None returns at once, any
\* other message is handed to the endpoint and its task waits
send_request(message) == IF message = None THEN None ELSE Pending

\* the messages of a batch that send_request hands to the endpoint
sent(batch) == {batch[j].pos : j \in {k \in 1..Len(batch) : batch[k] # None}}

----------------------------------------------------------------------------
(* Spec: a call of one of the two entry points *)

Models == {"gpt-3.5-turbo", "gpt-4", "text-davinci-003"}
Tiers == {"free", "tier_4"}
EntryPoints == {"fast_chat_completion", "fast_chat_completion_worker"}

Init ==
    /\ messages \in MessageLists({SmallTokens, LargeTokens}, MaxLen)
    /\ model \in Models
    /\ tier \in Tiers
    /\ entry \in EntryPoints
    /\ num_cpus \in 1..MaxCpus
    /\ rpm_limit = 0
    /\ tpm_limit = 0
    /\ context_len = 0
    /\ planned = FALSE
    /\ batches = <<>>
    /\ pc = "call"
    /\ output = <<>>
    /\ exception = "none"
    /\ NoPool

Raise(e) ==
    /\ pc' = "raised"
    /\ exception' = e

\* lines 183-191, up to the call of distribute_batches
fast_chat_completion_worker ==
    /\ entry = "fast_chat_completion_worker"
    /\ pc = "call"
    /\ LET model_limits == find_model_limits(model)
       IN  IF model_not_found(model_limits)
           THEN /\ Raise("ValueError")
                /\ UNCHANGED <<rpm_limit, tpm_limit, context_len, planned, batches>>
           ELSE IF model_limits = <<>>
           THEN /\ Raise("IndexError")     \* model_limits[0] of an empty list
                /\ UNCHANGED <<rpm_limit, tpm_limit, context_len, planned, batches>>
           ELSE LET model_limit == model_limits[1]
                    rate_limit == model_limit[tier]
                IN  /\ rpm_limit' = rate_limit.rpm
                    /\ tpm_limit' = rate_limit.tpm
                    /\ context_len' = model_limit.context_len
                    /\ batches' = make_batches(messages, rate_limit.rpm, rate_limit.tpm,
                                               model_limit.context_len)
                    /\ planned' = TRUE
                    /\ pc' = "start"
                    /\ UNCHANGED exception
    /\ UNCHANGED <<callVars, poolVars, output>>

\* lines 195-204 with process_prompts_with_rate_limiting, lines 130-144:
\* the call of process_batch in line 137 passes messages, model and kwargs
fast_chat_completion ==
    /\ entry = "fast_chat_completion"
    /\ pc = "call"
    /\ LET model_limits == find_model_limits(model)
       IN  IF model_not_found(model_limits)
           THEN /\ Raise("ValueError")
                /\ UNCHANGED <<rpm_limit, tpm_limit, context_len, planned, batches, output>>
           ELSE IF model_limits = <<>>
           THEN /\ Raise("IndexError")
                /\ UNCHANGED <<rpm_limit, tpm_limit, context_len, planned, batches, output>>
           ELSE LET model_limit == model_limits[1]
                    rate_limit == model_limit[tier]
                    plan == make_batches(messages, rate_limit.rpm, rate_limit.tpm,
                                         model_limit.context_len)
                IN  /\ rpm_limit' = rate_limit.rpm
                    /\ tpm_limit' = rate_limit.tpm
                    /\ context_len' = model_limit.context_len
                    /\ batches' = plan
                    /\ planned' = TRUE
                    /\ IF plan = <<>>
                       THEN \* the loop of line 135 has no iteration
                            /\ pc' = "returned"
                            /\ output' = <<>>
                            /\ UNCHANGED exception
                       ELSE \* line 137 in the first iteration: result_queue is
                            \* not bound; were it bound, process_batch returns
                            \* None and line 138 raises TypeError as well
                            /\ Raise("TypeError")
                            /\ UNCHANGED output
    /\ UNCHANGED <<callVars, poolVars>>

\* lines 151-158
StartWorkers ==
    /\ pc = "start"
    /\ processes' = [w \in 1..num_cpus |->
                        [state |-> "get", batch |-> <<>>, responses |-> <<>>, buffer |-> <<>>]]
    /\ pc' = IF batches = <<>> THEN "signal" ELSE "distribute"
    /\ i' = 1
    /\ UNCHANGED <<callVars, rpm_limit, tpm_limit, context_len, planned, batches,
                   batch_queue, result_queue, results, output, exception, invoked, clockVars>>

StopSignal == [kind |-> "None", messages |-> <<>>, model |-> ""]
WorkItem(batch) == [kind |-> "dict", messages |-> batch, model |-> model]

\* lines 162-163 with i > 0 replaced by i > 1 (k is the Python index plus one)
sleep_over_from_third(k) == IF k <= 2 THEN TRUE ELSE now >= enqueued[k - 1] + SLEEP

\* lines 162-163: before every batch but the first the supervisor sleeps
\* SLEEP time units, counted from the previous put
sleep_over(k) == IF k = 1 THEN TRUE ELSE now >= enqueued[k - 1] + SLEEP

\* one iteration of the loop of lines 161-168
PutBatch ==
    /\ pc = "distribute"
    /\ sleep_over(i)
    /\ batch_queue' = Append(batch_queue, WorkItem(batches[i]))
    /\ enqueued' = Append(enqueued, now)
    /\ IF i = Len(batches)
       THEN pc' = "signal" /\ i' = 1
       ELSE pc' = "distribute" /\ i' = i + 1
    /\ UNCHANGED <<callVars, rpm_limit, tpm_limit, context_len, planned, batches,
                   result_queue, processes, results, output, exception, invoked,
                   now, started>>

\* line 172 with the stop signal put at the head of the queue
put_first(queue, item) == <<item>> \o queue

\* a put on a multiprocessing.Queue by its only producer: first in, first out
put(queue, item) == Append(queue, item)

\* one iteration of the loop of lines 171-172
PutStop ==
    /\ pc = "signal"
    /\ batch_queue' = put(batch_queue, StopSignal)
    /\ IF i = num_cpus
       THEN pc' = "join" /\ i' = 1
       ELSE pc' = "signal" /\ i' = i + 1
    /\ UNCHANGED <<callVars, rpm_limit, tpm_limit, context_len, planned, batches,
                   result_queue, processes, results, output, exception, invoked, clockVars>>

\* whether the process has terminated: worker_process has returned or
\* raised, and the feeder thread of result_queue has written every list the
\* process put to the pipe (a process that used a queue does not terminate
\* before that)
terminated(process) ==
    /\ process.state \in {"exited", "crashed"}
    /\ process.buffer = <<>>

\* one iteration of the loop of lines 175-176: join returns once the
\* process has terminated
Join ==
    /\ pc = "join"
    /\ terminated(processes[i])
    /\ IF i = num_cpus
       THEN pc' = "collect" /\ i' = 1
       ELSE pc' = "join" /\ i' = i + 1
    /\ UNCHANGED <<callVars, rpm_limit, tpm_limit, context_len, planned, batches,
                   batch_queue, result_queue, processes, results, output, exception, invoked,
                   clockVars>>

\* one result_queue.get() of line 179
GetResult ==
    /\ pc = "collect"
    /\ Len(results) < Len(batches)
    /\ result_queue # <<>>
    /\ results' = Append(results, Head(result_queue))
    /\ result_queue' = Tail(result_queue)
    /\ UNCHANGED <<callVars, rpm_limit, tpm_limit, context_len, planned, batches, pc, i,
                   batch_queue, processes, output, exception, invoked, clockVars>>

\* line 179 reading what is there instead of one list per batch
all_read_or_queue_empty == Len(results) = Len(batches) \/ result_queue = <<>>

\* line 179: the list comprehension ends after one get per batch
all_read == Len(results) = Len(batches)

\* line 180 and line 192
Return ==
    /\ pc = "collect"
    /\ all_read
    /\ output' = chain(results)
    /\ pc' = "returned"
    /\ UNCHANGED <<callVars, rpm_limit, tpm_limit, context_len, planned, batches, i,
                   batch_queue, result_queue, processes, results, exception, invoked, clockVars>>

supervisorVars == <<callVars, rpm_limit, tpm_limit, context_len, planned, batches, pc, i,
                    results, output, exception>>

\* worker_process, lines 113-119, up to the await of line 103: the work
\* item always holds 'messages' and 'model' (lines 164-168), so line 118
\* is not reached
WorkerGet(w) ==
    /\ processes[w].state = "get"
    /\ batch_queue # <<>>
    /\ batch_queue' = Tail(batch_queue)
    /\ LET batch == Head(batch_queue)
       IN  IF batch = StopSignal
           THEN /\ processes' = [processes EXCEPT ![w].state = "exited"]
                /\ UNCHANGED <<invoked, started>>
           ELSE IF ~process_batch_binds({"result_queue", "messages", "model"} \cup kwargs)
           THEN /\ processes' = [processes EXCEPT ![w].state = "crashed"]
                /\ UNCHANGED <<invoked, started>>
           ELSE /\ processes' = [processes EXCEPT ![w] =
                        [state |-> "gather",
                         batch |-> batch.messages,
                         responses |-> [j \in 1..Len(batch.messages) |->
                                           send_request(batch.messages[j])],
                         buffer |-> processes[w].buffer]]
                /\ invoked' = invoked \cup sent(batch.messages)
                /\ started' = Append(started, now)
    /\ UNCHANGED <<supervisorVars, result_queue, now, enqueued>>

\* the endpoint's answer to the j-th request lands in the first open slot
Respond_in_completion_order(w, j) ==
    /\ processes[w].state = "gather"
    /\ processes[w].responses[j] = Pending
    /\ LET first == CHOOSE k \in 1..Len(processes[w].responses) :
                        /\ processes[w].responses[k] = Pending
                        /\ \A h \in 1..(k - 1) : processes[w].responses[h] # Pending
       IN  processes' = [processes EXCEPT ![w].responses[first] = create(processes[w].batch[j])]
    /\ UNCHANGED <<supervisorVars, batch_queue, result_queue, invoked, clockVars>>

\* the endpoint answers the j-th request of the batch, line 93
Respond(w, j) ==
    /\ processes[w].state = "gather"
    /\ processes[w].responses[j] = Pending
    /\ processes' = [processes EXCEPT ![w].responses[j] = create(processes[w].batch[j])]
    /\ UNCHANGED <<supervisorVars, batch_queue, result_queue, invoked, clockVars>>

\* the j-th request of the batch raises: gather, process_batch and
\* asyncio.run propagate the exception and the process ends, lines 103, 119
Fail(w, j) ==
    /\ processes[w].state = "gather"
    /\ processes[w].responses[j] = Pending
    /\ processes' = [processes EXCEPT ![w].state = "crashed"]
    /\ UNCHANGED <<supervisorVars, batch_queue, result_queue, invoked, clockVars>>

\* what a response list takes of the pipe: a header and its entries
item_size(responses) == 1 + Len(responses)

RECURSIVE pipe_used(_)
\* what the lists written to the pipe and not yet read take of it
pipe_used(queue) ==
    IF queue = <<>> THEN 0 ELSE item_size(Head(queue)) + pipe_used(Tail(queue))

\* whether the feeder thread of a process can write the list to the pipe
\* of result_queue: the lists the process put before are written and the
\* pipe has room; nothing reads the pipe before line 179
pipe_takes(process, queue, responses) ==
    /\ process.buffer = <<>>
    /\ pipe_used(queue) + item_size(responses) <= PipeCapacity

\* gather returns the responses in the order of the tasks, lines 103-104;
\* result_queue.put hands the list to the feeder thread of the process,
\* which writes it to the pipe or keeps it until the pipe has room
PutResponses(w) ==
    /\ processes[w].state = "gather"
    /\ \A j \in 1..Len(processes[w].responses) : processes[w].responses[j] # Pending
    /\ IF pipe_takes(processes[w], result_queue, processes[w].responses)
       THEN /\ result_queue' = Append(result_queue, processes[w].responses)
            /\ processes' = [processes EXCEPT ![w] =
                                [state |-> "get", batch |-> <<>>, responses |-> <<>>,
                                 buffer |-> <<>>]]
       ELSE /\ processes' = [processes EXCEPT ![w] =
                                [state |-> "get", batch |-> <<>>, responses |-> <<>>,
                                 buffer |-> Append(processes[w].buffer, processes[w].responses)]]
            /\ UNCHANGED result_queue
    /\ UNCHANGED <<supervisorVars, batch_queue, invoked, clockVars>>

\* the supervisor is in time.sleep, line 163
Sleeping == pc = "distribute" /\ ~sleep_over(i)

\* a worker blocked in batch_queue.get() while the queue holds an item
GetReady == \E w \in DOMAIN processes : processes[w].state = "get" /\ batch_queue # <<>>

\* a request is in flight at the endpoint
InFlight ==
    \E w \in DOMAIN processes :
        /\ processes[w].state = "gather"
        /\ \E j \in 1..Len(processes[w].responses) : processes[w].responses[j] = Pending

\* a worker whose requests are all answered and that has yet to put
PutReady ==
    \E w \in DOMAIN processes :
        /\ processes[w].state = "gather"
        /\ \A j \in 1..Len(processes[w].responses) : processes[w].responses[j] # Pending

\* time passes: while the supervisor sleeps, or while a request is in
\* flight and a batch has yet to start; a get on a queue that holds an
\* item, the put of a finished batch and the put that follows time.sleep
\* take no time
Tick ==
    /\ ~GetReady
    /\ ~PutReady
    /\ IF pc = "distribute" THEN Sleeping
       ELSE InFlight /\ Len(started) < Len(batches) /\ now < MaxTime
    /\ now' = now + TickLen
    /\ UNCHANGED <<supervisorVars, batch_queue, result_queue, processes, invoked,
                   enqueued, started>>

Next ==
    \/ fast_chat_completion_worker
    \/ fast_chat_completion
    \/ StartWorkers
    \/ PutBatch
    \/ PutStop
    \/ Join
    \/ GetResult
    \/ Return
    \/ \E w \in DOMAIN processes : WorkerGet(w)
    \/ \E w \in DOMAIN processes : \E j \in DOMAIN processes[w].responses : Respond(w, j)
    \/ \E w \in DOMAIN processes : \E j \in DOMAIN processes[w].responses : Fail(w, j)
    \/ \E w \in DOMAIN processes : PutResponses(w)
    \/ Tick

Spec == Init /\ [][Next]_vars

\* the steps of a call in which no request to the endpoint raises
NextLive ==
    \/ fast_chat_completion_worker
    \/ fast_chat_completion
    \/ StartWorkers
    \/ PutBatch
    \/ PutStop
    \/ Join
    \/ GetResult
    \/ Return
    \/ \E w \in DOMAIN processes : WorkerGet(w)
    \/ \E w \in DOMAIN processes : \E j \in DOMAIN processes[w].responses : Respond(w, j)
    \/ \E w \in DOMAIN processes : PutResponses(w)
    \/ Tick

\* no request raises, every request is answered and every process that can
\* take a step is scheduled
SpecLive == Init /\ [][NextLive]_vars /\ WF_vars(NextLive)

----------------------------------------------------------------------------
(* Properties of the plan, checked under SpecPlan *)

PlanReturned == entry = "make_batches" /\ pc = "returned"

Oversized(message, ctx) == count_tokens(message) > ctx

NoOversized == \A k \in 1..Len(messages) : ~Oversized(messages[k], context_len)

\* C4: the flattened plan has exactly as many entries as the input list.
C4_PlanCoversInput ==
    PlanReturned => Len(chain(batches)) = Len(messages)

\* C5 as stated: every batch has at most rpm_limit entries when rpm_limit > 0
\* and its requests cost at most tpm_limit in total when tpm_limit > 0
\* (stated for the lists that hold no oversized request).
C5_Original ==
    (PlanReturned /\ NoOversized) =>
        \A b \in 1..Len(batches) :
            /\ rpm_limit > 0 => Len(batches[b]) <= rpm_limit
            /\ tpm_limit > 0 => SumTokens(batches[b]) <= tpm_limit

\* C5 amended: every batch has at most rpm_limit requests (entries other
\* than None) when rpm_limit > 0, and when tpm_limit > 0 its requests cost
\* at most tpm_limit in total unless the batch holds a single request.
C5_BatchWithinLimits ==
    PlanReturned =>
        \A b \in 1..Len(batches) :
            /\ rpm_limit > 0 => Len(Requests(batches[b])) <= rpm_limit
            /\ tpm_limit > 0 =>
                  \/ SumTokens(batches[b]) <= tpm_limit
                  \/ Len(Requests(batches[b])) = 1

\* a plan of several batches under positive limits in which one batch is
\* full and another holds a single request that costs more than tpm_limit
C5_Witness ==
    /\ PlanReturned
    /\ rpm_limit > 0
    /\ tpm_limit > 0
    /\ \E b \in 1..Len(batches) : Len(Requests(batches[b])) = rpm_limit /\ rpm_limit > 1
    /\ \E b \in 1..Len(batches) : SumTokens(batches[b]) > tpm_limit

\* C9: with rpm_limit <= 0 and tpm_limit <= 0 neither check is applied, so
\* a list without oversized requests is planned as a single batch.
C9_NonPositiveLimitsUnlimited ==
    (PlanReturned /\ rpm_limit <= 0 /\ tpm_limit <= 0 /\ NoOversized /\ messages # <<>>)
        => batches = <<messages>>

----------------------------------------------------------------------------
(* Properties of the entry points, checked under Spec *)

KnownModels == {MODEL_LIMITS[k].model_name : k \in 1..Len(MODEL_LIMITS)}

\* the call has ended or can take no further step
Ended == ~ENABLED Next

\* the result the caller is owed for the k-th message
Expected(k) ==
    IF Oversized(messages[k], context_len) THEN None ELSE create(messages[k])

Aligned ==
    /\ Len(output) = Len(messages)
    /\ \A k \in 1..Len(messages) : output[k] = Expected(k)

\* C1: the list returned by fast_chat_completion_worker is in input order,
\* output[k] being the response to input[k] (stated for the lists that
\* hold no oversized request).
C1_WorkerOutputInInputOrder ==
    (entry = "fast_chat_completion_worker" /\ pc = "returned" /\ NoOversized) =>
        \A k \in 1..Len(messages) :
            k <= Len(output) /\ output[k] = create(messages[k])

\* C2: the list returned by fast_chat_completion_worker has as many
\* entries as the input list.
C2_WorkerOutputLength ==
    (entry = "fast_chat_completion_worker" /\ pc = "returned") =>
        Len(output) = Len(messages)

\* C3: a request that costs more than context_len is never passed to the
\* endpoint and the returned list holds None at its position.
C3_OversizedSkipped ==
    planned =>
        \A k \in 1..Len(messages) :
            Oversized(messages[k], context_len) =>
                /\ k \notin invoked
                /\ pc = "returned" => (k <= Len(output) /\ output[k] = None)

\* C6: fast_chat_completion, called with a non-empty list and a known
\* model, returns the order-aligned list with one entry per request.
C6_SingleProcessReturnsAligned ==
    (entry = "fast_chat_completion" /\ messages # <<>> /\ model \in KnownModels
        /\ pc # "call") =>
        pc = "returned" /\ Aligned

\* C7: with a model name that is not in the limit table both entry points
\* raise ValueError, and no batch is planned, no worker is started and no
\* request reaches the endpoint.
C7_UnknownModelRaises ==
    (model \notin KnownModels /\ pc # "call") =>
        /\ pc = "raised"
        /\ exception = "ValueError"
        /\ ~planned
        /\ processes = <<>>
        /\ batch_queue = <<>>
        /\ invoked = {}

\* both entry points have raised for an unknown model: the state after the call
C7_Witness ==
    /\ model \notin KnownModels
    /\ entry = "fast_chat_completion_worker"
    /\ messages # <<>>
    /\ pc = "raised"

\* C8: every call ends with a returned list or with an exception raised to
\* the caller; a call in which a request failed ends with an exception.
C8_ReturnsOrRaises ==
    Ended => pc \in {"returned", "raised"}

\* C10: for an empty list and a known model both entry points return an
\* empty list, the plan has no batch and no request reaches the endpoint.
C10_EmptyInput ==
    (messages = <<>> /\ model \in KnownModels) =>
        /\ invoked = {}
        /\ planned => batches = <<>>
        /\ pc # "raised"
        /\ pc = "returned" => output = <<>>
        /\ Ended => pc = "returned"

\* the worker pool has run to the end on an empty list
C10_Witness ==
    /\ messages = <<>>
    /\ model \in KnownModels
    /\ entry = "fast_chat_completion_worker"
    /\ planned
    /\ \A w \in DOMAIN processes : processes[w].state = "exited"
    /\ processes # <<>>
    /\ pc = "returned"

----------------------------------------------------------------------------
(* Further properties of the plan, checked under SpecPlan *)

\* every message fits tpm_limit and context_len
AllFit ==
    \A k \in 1..Len(messages) :
        /\ count_tokens(messages[k]) <= tpm_limit
        /\ count_tokens(messages[k]) <= context_len

\* C11: with rpm_limit = 1 and n requests that each fit tpm_limit and
\* context_len the plan is n singleton batches in input order.
C11_RpmOneSingletons ==
    (PlanReturned /\ rpm_limit = 1 /\ AllFit) =>
        batches = [k \in 1..Len(messages) |-> <<messages[k]>>]

\* two requests of equal cost planned under rpm_limit = 1
C11_Witness ==
    /\ PlanReturned
    /\ rpm_limit = 1
    /\ AllFit
    /\ Len(messages) = 2
    /\ count_tokens(messages[1]) = count_tokens(messages[2])
    /\ tpm_limit >= count_tokens(messages[1]) + count_tokens(messages[2])
    /\ Len(batches) = 2

\* C15: no batch of the plan is empty.
C15_NoEmptyBatch ==
    PlanReturned => \A b \in 1..Len(batches) : batches[b] # <<>>

\* the messages of a list that pass the context check, in list order
Fitting(list) ==
    SelectSeq(list, LAMBDA e : e # None /\ ~Oversized(e, context_len))

\* C16: the requests that pass the context check appear in the plan once
\* each, and reading the batches in order yields them in input order.
C16_NoRequestLostOrReordered ==
    PlanReturned => Fitting(chain(batches)) = Fitting(messages)

\* a plan of several batches for a list with fitting and oversized requests
C16_Witness ==
    /\ PlanReturned
    /\ Len(batches) >= 2
    /\ Len(Fitting(messages)) >= 2
    /\ Len(Fitting(messages)) < Len(messages)

\* the message costs more than tpm_limit and passes the context check
OverTpm(message) ==
    /\ tpm_limit > 0
    /\ count_tokens(message) > tpm_limit
    /\ ~Oversized(message, context_len)

\* the batches of the plan that hold the message
BatchesOf(message) ==
    {b \in 1..Len(batches) : \E j \in 1..Len(batches[b]) : batches[b][j] = message}

\* C17 as stated: a request that alone costs more than tpm_limit > 0 and
\* passes the context check is the only entry of its batch.
C17_Original ==
    PlanReturned =>
        \A k \in 1..Len(messages) :
            OverTpm(messages[k]) =>
                \A b \in BatchesOf(messages[k]) : batches[b] = <<messages[k]>>

\* C17 amended: such a request is the first entry and the only request of
\* its batch; the batch holds nothing else but the skip marker of an
\* oversized request that follows it in the input.
C17_OverTpmAlone ==
    PlanReturned =>
        \A k \in 1..Len(messages) :
            OverTpm(messages[k]) =>
                /\ Cardinality(BatchesOf(messages[k])) = 1
                /\ \A b \in BatchesOf(messages[k]) :
                      \/ batches[b] = <<messages[k]>>
                      \/ /\ batches[b] = <<messages[k], None>>
                         /\ k < Len(messages)
                         /\ Oversized(messages[k + 1], context_len)

\* a request over tpm_limit between two requests that fit, and one followed
\* by an oversized request
C17_Witness ==
    /\ PlanReturned
    /\ \E k \in 2..(Len(messages) - 1) :
          /\ OverTpm(messages[k])
          /\ ~OverTpm(messages[k - 1]) /\ ~Oversized(messages[k - 1], context_len)
          /\ batches[CHOOSE b \in BatchesOf(messages[k]) : TRUE] = <<messages[k]>>
    /\ \E k \in 1..Len(messages) :
          /\ OverTpm(messages[k])
          /\ batches[CHOOSE b \in BatchesOf(messages[k]) : TRUE] = <<messages[k], None>>

----------------------------------------------------------------------------
(* Properties of the worker pool, checked under Spec and SpecLive *)

Crashed == \E w \in DOMAIN processes : processes[w].state = "crashed"

StopsQueued == Len(SelectSeq(batch_queue, LAMBDA item : item = StopSignal))

Exited == {w \in DOMAIN processes : processes[w].state = "exited"}

\* C12: once a worker process has crashed in a batch the supervisor never
\* returns and never raises; where it can take no further step it waits
\* for a process or for a result that is not on the result queue.
C12_CrashBlocksSupervisor ==
    Crashed =>
        /\ pc \notin {"returned", "raised"}
        /\ Ended =>
              \/ pc = "join" /\ ~terminated(processes[i])
              \/ pc = "collect" /\ result_queue = <<>> /\ Len(results) < Len(batches)

\* one of two workers has crashed; the supervisor has read the other
\* worker's results and waits for the missing one
C12_Witness ==
    /\ Crashed
    /\ Ended
    /\ pc = "collect"
    /\ Len(results) >= 1
    /\ Len(results) < Len(batches)
    /\ result_queue = <<>>

\* C13: stop signals follow every batch on the work queue, a stop signal
\* is put or taken only after every batch was put, a worker that took one
\* leaves no batch behind on the queue, and there is one stop signal per
\* worker.
C13_StopSignalsLast ==
    entry = "fast_chat_completion_worker" =>
        /\ \A a, b \in DOMAIN batch_queue :
              (a < b /\ batch_queue[a] = StopSignal) => batch_queue[b] = StopSignal
        /\ (StopsQueued > 0 \/ Exited # {}) => Len(enqueued) = Len(batches)
        /\ Exited # {} => StopsQueued = Len(batch_queue)
        /\ StopsQueued + Cardinality(Exited) <= num_cpus
        /\ pc \in {"join", "collect", "returned"} =>
              StopsQueued + Cardinality(Exited) = num_cpus

\* one worker has taken its stop signal while another still works on the
\* last of several batches
C13_Witness ==
    /\ Len(batches) >= 2
    /\ Exited # {}
    /\ StopsQueued >= 1
    /\ \E w \in DOMAIN processes :
          /\ processes[w].state = "gather"
          /\ processes[w].batch = batches[Len(batches)]

\* the response owed for an entry of a batch
Answer(message) == IF message = None THEN None ELSE create(message)

\* the list process w has put on result_queue in this step
Pushed(w) ==
    IF processes'[w].buffer # processes[w].buffer
    THEN processes'[w].buffer[Len(processes'[w].buffer)]
    ELSE result_queue'[Len(result_queue')]

\* C14: the list a worker puts on the result queue has the length of its
\* batch and its j-th entry is the response to the batch's j-th entry,
\* None for None, in whatever order the requests were answered.
C14_ResponsesAlignedWithBatch ==
    [][\A w \in DOMAIN processes :
          (processes[w].state = "gather" /\ processes'[w].state = "get") =>
              /\ Len(Pushed(w)) = Len(processes[w].batch)
              /\ \A j \in 1..Len(processes[w].batch) :
                    Pushed(w)[j] = Answer(processes[w].batch[j])]_vars

\* a list with None and a response is on the result queue, and in another
\* worker a later request of the batch is answered before an earlier one
C14_Witness ==
    /\ \E r \in 1..Len(result_queue) :
          /\ Len(result_queue[r]) >= 2
          /\ \E j, k \in 1..Len(result_queue[r]) :
                result_queue[r][j] = None /\ result_queue[r][k].kind = "response"
    /\ \E w \in DOMAIN processes :
          /\ processes[w].state = "gather"
          /\ \E j, k \in 1..Len(processes[w].responses) :
                /\ j < k
                /\ processes[w].responses[j] = Pending
                /\ processes[w].responses[k].kind = "response"

\* C18: fast_chat_completion executes every batch of the plan, in plan
\* order, each at least SLEEP time units after the one before started.
C18_SingleProcessBatchesSpaced ==
    (entry = "fast_chat_completion" /\ model \in KnownModels /\ pc # "call") =>
        /\ Len(started) = Len(batches)
        /\ \A k \in 2..Len(started) : started[k] >= started[k - 1] + SLEEP

\* C19: a call of fast_chat_completion_worker in which no request raises
\* ends returned, with every worker exited, one result read per batch and
\* the result queue empty (stated for the lists that hold no oversized
\* request).
C19_WorkerPoolReturns ==
    (entry = "fast_chat_completion_worker" /\ model \in KnownModels /\ planned
        /\ NoOversized /\ ~ENABLED NextLive) =>
        /\ pc = "returned"
        /\ \A w \in DOMAIN processes : terminated(processes[w])
        /\ Len(results) = Len(batches)
        /\ result_queue = <<>>

\* C20 as stated: any two batches begin executing at least SLEEP time
\* units apart.
C20_Original ==
    \A k \in 2..Len(started) : started[k] >= started[k - 1] + SLEEP

\* C20 amended: any two batches are put on the work queue at least SLEEP
\* time units apart, and no batch begins executing before it is put.
C20_BatchesEnqueuedSpaced ==
    /\ \A k \in 2..Len(enqueued) : enqueued[k] >= enqueued[k - 1] + SLEEP
    /\ \A k \in 1..Len(started) : k <= Len(enqueued) /\ started[k] >= enqueued[k]

\* three batches put SLEEP apart, two of which began executing less than
\* SLEEP apart
C20_Witness ==
    /\ Len(enqueued) >= 3
    /\ \E k \in 2..Len(started) : started[k] < started[k - 1] + SLEEP

====
